---- MODULE Spec2Model ----
(***************************************************************************)
(* pyreglin: the simulated-response generator rlm (simdata/rlm.py), the    *)
(* ANOVA table tab_anova (tab_anova/tab_anova.py), the statistics press,   *)
(* R2 and R2adj (statistics/) and the plots gginfluence and ggresiduals    *)
(* (graphics/).                                                            *)
(*                                                                         *)
(* Python values are modelled as follows.                                  *)
(*   - a str is the tuple of its characters, so that `'offset' in item`    *)
(*     is a substring search;                                              *)
(*   - None is the empty tuple and a present value v is <<v>>;             *)
(*   - a 1-d array is a tuple of integers;                                 *)
(*   - the process-wide numpy generator is one integer, its state.         *)
(***************************************************************************)
EXTENDS Integers, Sequences, FiniteSets, TLC

VARIABLES
    rng,      \* state of the process-wide generator np.random
    pc,       \* "idle", or "done" when `last` holds a returned call
    last,     \* the call the caller holds: its arguments and its outcome
    again,    \* <<outcome>> of the same call made once more, else <<>>
    bcast,    \* <<outcome>> of the call made with sigma as [c]*n, else <<>>
    th,       \* the calls of the concurrent callers
    model,    \* <<fitted model>> handed to tab_anova, else <<>>
    table,    \* <<outcome>> of tab_anova(model), else <<>>
    given,    \* the models handed to press(models...)
    pressed,  \* <<outcome>> of press(given...), else <<>>
    diag      \* <<outcome>> of the last statistic or plot asked of model

vars == <<rng, pc, last, again, bcast, th, model, table, given, pressed, diag>>

(***************************************************************************)
(* Bounds of the model.                                                    *)
(***************************************************************************)
MaxRows == 2      \* data frames have 1..MaxRows rows
MaxBeta == 3      \* beta has 0..MaxBeta entries
MaxSeed == 2      \* random_state is None or 1..MaxSeed
MaxObs == 3       \* fitted models have 2..MaxObs observations

(***************************************************************************)
(* Strings.                                                                *)
(***************************************************************************)
S_offset == <<"o", "f", "f", "s", "e", "t">>
S_Intercept == <<"I", "n", "t", "e", "r", "c", "e", "p", "t">>
S_x == <<"x">>
S_q == <<"q">>
S_group == <<"g", "r", "o", "u", "p">>
S_t_offset == <<"t", "_">> \o S_offset
S_A == <<"A">>
S_B == <<"B">>

\* Python's `pat in s` for two str.
Contains(s, pat) ==
    \E i \in 1..(Len(s) - Len(pat) + 1) : SubSeq(s, i, i + Len(pat) - 1) = pat

\* Sum of a tuple of integers.
RECURSIVE SumSeq(_)
SumSeq(s) == IF s = <<>> THEN 0 ELSE Head(s) + SumSeq(Tail(s))

\* All tuples over S of length lo..hi.
SeqsOf(S, lo, hi) == UNION {[1..k -> S] : k \in lo..hi}

\* The increasing tuple of the members of a set of integers.
RECURSIVE Sorted(_)
Sorted(S) ==
    IF S = {} THEN <<>>
    ELSE LET m == CHOOSE a \in S : \A b \in S : a <= b
         IN <<m>> \o Sorted(S \ {m})

\* The tuple s without the positions in the set drop.
Without(s, drop) ==
    LET keep == Sorted({i \in 1..Len(s) : i \notin drop})
    IN [k \in 1..Len(keep) |-> s[keep[k]]]

(***************************************************************************)
(* The data frames: columns x = 0, 1, ..., t_offset = 1, 2, ... and        *)
(* group = A, B, A, ...                                                    *)
(***************************************************************************)
NumericColumns == {S_x, S_t_offset}

Frame(n) ==
    [rows |-> n,
     x |-> [i \in 1..n |-> i - 1],
     t_offset |-> [i \in 1..n |-> i],
     group |-> [i \in 1..n |-> IF i % 2 = 1 THEN S_A ELSE S_B]]

NumColumn(df, name) == IF name = S_x THEN df.x ELSE df.t_offset

(***************************************************************************)
(* Formulas.  A formula that is a str is modelled parsed: whether it keeps *)
(* the intercept, and its terms in the order written.  A term names a      *)
(* numeric column ("num"), a categorical column ("cat") or is a call       *)
(* offset(<column>) ("offset").                                            *)
(***************************************************************************)
T_x == [kind |-> "num", col |-> S_x]
T_t_offset == [kind |-> "num", col |-> S_t_offset]
T_q == [kind |-> "num", col |-> S_q]
T_group == [kind |-> "cat", col |-> S_group]
T_offset_x == [kind |-> "offset", col |-> S_x]

Formula(intercept, terms) == [str |-> TRUE, intercept |-> intercept, terms |-> terms]
NotAString == [str |-> FALSE, intercept |-> FALSE, terms |-> <<>>]

\* The levels of df.group, in sorted order.
Levels(df) == SelectSeq(<<S_A, S_B>>, LAMBDA l : \E i \in 1..df.rows : df.group[i] = l)

\* patsy's name of the column of a numeric factor.
FactorName(term) ==
    IF term.kind = "offset" THEN S_offset \o <<"(">> \o term.col \o <<")">>
    ELSE term.col

\* patsy's columns of the categorical term group: one per level without an
\* intercept (full rank), one per level but the first with one (treatment).
CatColumns(df, full) ==
    LET lv == IF full THEN Levels(df) ELSE Tail(Levels(df))
    IN [k \in 1..Len(lv) |->
          [name |-> S_group \o (IF full THEN <<"[">> ELSE <<"[", "T", ".">>)
                            \o lv[k] \o <<"]">>,
           kind |-> "cat",
           vals |-> [i \in 1..df.rows |-> IF df.group[i] = lv[k] THEN 1 ELSE 0]]]

RECURSIVE CatTermColumns(_, _, _)
CatTermColumns(cats, df, full) ==
    IF cats = <<>> THEN <<>>
    ELSE CatColumns(df, full) \o CatTermColumns(Tail(cats), df, FALSE)

\* patsy.dmatrix raises when a factor names no column of data.
DmatrixRaises(formula, df) ==
    \E k \in 1..Len(formula.terms) :
        /\ formula.terms[k].kind # "cat"
        /\ formula.terms[k].col \notin NumericColumns

\* patsy.dmatrix(formula, data): the columns of the design matrix, each with
\* its name and the kind of term it comes from (patsy's design_info): the
\* intercept, then the categorical terms, then the numeric ones.
Dmatrix(formula, df) ==
    LET cats == SelectSeq(formula.terms, LAMBDA t : t.kind = "cat")
        nums == SelectSeq(formula.terms, LAMBDA t : t.kind # "cat")
        icpt == IF formula.intercept
                THEN << [name |-> S_Intercept, kind |-> "intercept", vals |-> [i \in 1..df.rows |-> 1]] >>
                ELSE <<>>
    IN icpt
       \o CatTermColumns(cats, df, ~formula.intercept)
       \o [k \in 1..Len(nums) |->
             [name |-> FactorName(nums[k]), kind |-> nums[k].kind,
              vals |-> NumColumn(df, nums[k].col)]]

(***************************************************************************)
(* find_offset_position                                                    *)
(***************************************************************************)
find_offset_position(lst) ==
    Sorted({i \in 1..Len(lst) : Contains(lst[i], S_offset)})

(***************************************************************************)
(* The numbers of rlm are integers and the non-finite floats nan, inf and  *)
(* -inf, which are given values no finite number of the model reaches.     *)
(***************************************************************************)
F_inf == 1000
F_nan == 9999

NonFinite(a) == a = F_nan \/ a = F_inf \/ a = -F_inf

\* a + b of floats
FAdd(a, b) ==
    IF a = F_nan \/ b = F_nan THEN F_nan
    ELSE IF NonFinite(a) THEN (IF b = -a THEN F_nan ELSE a)
    ELSE IF NonFinite(b) THEN b
    ELSE a + b

\* a * b of floats
FMul(a, b) ==
    IF a = F_nan \/ b = F_nan THEN F_nan
    ELSE IF NonFinite(a) \/ NonFinite(b)
    THEN (IF a = 0 \/ b = 0 THEN F_nan
          ELSE IF (a < 0) = (b < 0) THEN F_inf ELSE -F_inf)
    ELSE a * b

RECURSIVE FSum(_)
FSum(s) == IF s = <<>> THEN 0 ELSE FAdd(Head(s), FSum(Tail(s)))

(***************************************************************************)
(* The generator np.random: seeding, and drawing normal deviates.          *)
(***************************************************************************)
RngStates == 0..7

\* np.random.seed(s): the state the seed determines.
SeedState(s) == (3 * s) % 8

\* One standard normal draw: the deviate and the state after it.
Gauss(r) ==
    LET r2 == (5 * r + 3) % 8
    IN [z |-> (r2 % 3) - 1, rng |-> r2]

\* np.random.normal(0, sigma) for an array sigma: one draw per entry, in
\* order, each scaled by its entry.
RECURSIVE Normal(_, _)
Normal(r, sigma) ==
    IF sigma = <<>> THEN [vals |-> <<>>, rng |-> r]
    ELSE LET g == Gauss(r)
             rest == Normal(g.rng, Tail(sigma))
         IN [vals |-> <<FMul(Head(sigma), g.z)>> \o rest.vals, rng |-> rest.rng]

(***************************************************************************)
(* rlm(formula, beta, sigma, data, random_state)                           *)
(*                                                                         *)
(* sigma is [scalar |-> TRUE, v |-> <<c>>] for a number c and              *)
(* [scalar |-> FALSE, v |-> <<...>>] for a sequence.  A call ends in an    *)
(* outcome: the exception raised, or the vector returned.                  *)
(***************************************************************************)
Raise(type, msg) == [exc |-> type, msg |-> msg, ret |-> <<>>]
Return(y) == [exc |-> "", msg |-> "", ret |-> <<y>>]

Scalar(c) == [scalar |-> TRUE, v |-> <<c>>]
Array(v) == [scalar |-> FALSE, v |-> v]

\* isinstance(formula, str) fails
FormulaRejected(formula) == ~formula.str

\* isinstance(data, pd.DataFrame) fails
DataRejected(data) == data = <<>>

\* Mutant: the seed is never set.
SeedIfGiven_never(random_state, r) == r

\* if random_state is not None: np.random.seed(random_state)
SeedIfGiven(random_state, r) ==
    IF random_state # <<>> THEN SeedState(random_state[1]) ELSE r

\* Mutant: a scalar sigma becomes np.ones(n).
SigmaArray_ones(sigma, n) ==
    IF sigma.scalar THEN [i \in 1..n |-> 1] ELSE sigma.v

\* np.full(data.shape[0], sigma) for a scalar sigma, else sigma as given
SigmaArray(sigma, n) ==
    IF sigma.scalar THEN [i \in 1..n |-> sigma.v[1]] ELSE sigma.v

\* Mutant: only a sequence that is too short is rejected.
SigmaRejected_short(sigma, n) == ~sigma.scalar /\ Len(sigma.v) < n

\* elif len(sigma) != data.shape[0]
SigmaRejected(sigma, n) == ~sigma.scalar /\ Len(sigma.v) # n

\* X[:, offset_position].sum(axis=1), or 0 without offset columns
OffsetValues(X, offset_position, n) ==
    [i \in 1..n |-> SumSeq([k \in 1..Len(offset_position) |-> X[offset_position[k]].vals[i]])]

\* np.delete(X, offset_position, axis=1)
DeleteColumns(X, offset_position) ==
    Without(X, {offset_position[k] : k \in 1..Len(offset_position)})

\* Mutant: only a beta that is too short is rejected.
BetaRejected_short(beta, p) == Len(beta) < p

\* if len(beta) != p
BetaRejected(beta, p) == Len(beta) # p

\* Mutant: the last row is left out.
Response_short(X, beta, offset_values, noise, n) ==
    [i \in 1..(n - 1) |->
        FAdd(FAdd(FSum([j \in 1..Len(X) |-> FMul(X[j].vals[i], beta[j])]),
                  offset_values[i]),
             noise[i])]

\* X.dot(beta) + offset_values + noise
Response(X, beta, offset_values, noise, n) ==
    [i \in 1..n |->
        FAdd(FAdd(FSum([j \in 1..Len(X) |-> FMul(X[j].vals[i], beta[j])]),
                  offset_values[i]),
             noise[i])]

\* Lines 79-91: the type checks, then the seeding of the process-wide
\* generator.  [out, rng]: out.exc = "" when the call goes on.
RlmEnter(a, r) ==
    IF FormulaRejected(a.formula)
    THEN [out |-> Raise("TypeError", "formula must be a string"), rng |-> r]
    ELSE IF DataRejected(a.data)
    THEN [out |-> Raise("TypeError", "data must be a pandas DataFrame"), rng |-> r]
    ELSE [out |-> Return(<<>>), rng |-> SeedIfGiven(a.random_state, r)]

\* Lines 93-127: sigma, the design matrix, the offsets, the check of beta
\* and the draw, from the generator state r the call finds.
RlmBody(a, r) ==
    LET df == a.data[1]
        n == df.rows
    IN IF SigmaRejected(a.sigma, n)
       THEN [out |-> Raise("ValueError", "sigma must be numeric or of size of the number of rows in data"),
             rng |-> r]
       ELSE IF DmatrixRaises(a.formula, df)
       THEN [out |-> Raise("ValueError", "Error in formula processing"), rng |-> r]
       ELSE
       LET sigma == SigmaArray(a.sigma, n)
           X0 == Dmatrix(a.formula, df)
           design_terms == [k \in 1..Len(X0) |-> X0[k].name]
           offset_position == find_offset_position(design_terms)
           offset_values == OffsetValues(X0, offset_position, n)
           X == DeleteColumns(X0, offset_position)
           p == Len(X)
       IN IF BetaRejected(a.beta, p)
          THEN [out |-> Raise("ValueError", "Dimension mismatch"), rng |-> r]
          ELSE IF \E i \in 1..Len(sigma) : sigma[i] < 0
          THEN [out |-> Raise("ValueError", "scale < 0"), rng |-> r]
          ELSE LET noise == Normal(r, sigma)
               IN [out |-> Return(Response(X, a.beta, offset_values, noise.vals, n)),
                   rng |-> noise.rng]

\* One whole call of rlm made with the generator in state r.
RlmRun(a, r) ==
    LET e == RlmEnter(a, r)
    IN IF e.out.exc # "" THEN e ELSE RlmBody(a, e.rng)

(***************************************************************************)
(* The calls the model makes.                                              *)
(***************************************************************************)
Formulas ==
    { NotAString,
      Formula(TRUE, <<T_x>>),                 \* "x"
      Formula(TRUE, <<T_x, T_group>>),        \* "x + group"
      Formula(FALSE, <<T_x>>),                \* "x - 1"
      Formula(FALSE, <<T_group>>),            \* "group - 1"
      Formula(TRUE, <<T_x, T_offset_x>>),     \* "x + offset(x)"
      Formula(TRUE, <<T_t_offset, T_x>>),     \* "t_offset + x"
      Formula(TRUE, <<T_q>>) }                \* "q"

\* beta = [2, 3, ...], of every length 0..MaxBeta
Betas == {[j \in 1..k |-> j + 1] : k \in 0..MaxBeta}

\* sigma: a number, or [2, 2, ...] or [1, 2, ...] of every length 1..MaxRows+1
Sigmas ==
    {Scalar(c) : c \in {-1, 0, 1, 2}}
    \cup {Array([i \in 1..k |-> 2]) : k \in 1..(MaxRows + 1)}
    \cup {Array([i \in 1..k |-> i]) : k \in 1..(MaxRows + 1)}

Datas == {<<>>} \cup {<<Frame(n)>> : n \in 1..MaxRows}

RandomStates == {<<>>} \cup {<<s>> : s \in 1..MaxSeed}

Args ==
    [formula : Formulas, beta : Betas, sigma : Sigmas, data : Datas,
     random_state : RandomStates]

NoCall ==
    [formula |-> NotAString, beta |-> <<>>, sigma |-> Scalar(0), data |-> <<>>,
     random_state |-> <<>>]

\* The calls made between a call and its repetition.
OtherArgs ==
    [formula : {Formula(TRUE, <<T_x>>)}, beta : {<<2, 3>>, <<2>>},
     sigma : {Scalar(1)}, data : {<<Frame(1)>>},
     random_state : {<<>>, <<1>>}]

\* The calls of the concurrent callers, each with its own random_state.
ConcArgs ==
    [formula : {Formula(TRUE, <<T_x>>)}, beta : {<<2, 3>>, <<2>>},
     sigma : {Scalar(0), Scalar(1)}, data : {<<Frame(MaxRows)>>},
     random_state : {<<s>> : s \in 1..MaxSeed}]

Threads == {1, 2}

(***************************************************************************)
(* The state machine.                                                      *)
(***************************************************************************)
Init ==
    /\ rng \in RngStates
    /\ pc = "idle"
    /\ last = <<>>
    /\ again = <<>>
    /\ bcast = <<>>
    /\ th = [t \in Threads |-> [pc |-> "idle", args |-> NoCall, out |-> Return(<<>>)]]
    /\ model = <<>>
    /\ table = <<>>
    /\ given = <<>>
    /\ pressed = <<>>
    /\ diag = <<>>

\* y = rlm(**a): the caller keeps the arguments and the outcome.
Rlm(a) ==
    /\ pc = "idle"
    /\ LET res == RlmRun(a, rng)
       IN /\ rng' = res.rng
          /\ last' = <<[args |-> a, out |-> res.out]>>
    /\ pc' = "done"
    /\ UNCHANGED <<again, bcast, th, model, table, given, pressed, diag>>

\* Another call of rlm, whose outcome the caller does not keep.
RlmOther(a) ==
    /\ pc = "done"
    /\ again = <<>>
    /\ bcast = <<>>
    /\ rng' = RlmRun(a, rng).rng
    /\ UNCHANGED <<pc, last, again, bcast, th, model, table, given, pressed, diag>>

\* The call held in `last` made once more, with the same arguments.
RlmAgain ==
    /\ pc = "done"
    /\ again = <<>>
    /\ bcast = <<>>
    /\ LET res == RlmRun(last[1].args, rng)
       IN /\ rng' = res.rng
          /\ again' = <<res.out>>
    /\ UNCHANGED <<pc, last, bcast, th, model, table, given, pressed, diag>>

\* The call held in `last`, made with a scalar sigma c, made once more with
\* sigma = [c] * n.
RlmBroadcast ==
    /\ pc = "done"
    /\ again = <<>>
    /\ bcast = <<>>
    /\ last[1].args.sigma.scalar
    /\ last[1].args.data # <<>>
    /\ LET a == last[1].args
           c == a.sigma.v[1]
           n == a.data[1].rows
           res == RlmRun([a EXCEPT !.sigma = Array([i \in 1..n |-> c])], rng)
       IN /\ rng' = res.rng
          /\ bcast' = <<res.out>>
    /\ UNCHANGED <<pc, last, again, th, model, table, given, pressed, diag>>

\* The caller lets go of the outcomes it holds.
Discard ==
    /\ pc = "done"
    /\ pc' = "idle"
    /\ last' = <<>>
    /\ again' = <<>>
    /\ bcast' = <<>>
    /\ UNCHANGED <<rng, th, model, table, given, pressed, diag>>

Next ==
    \/ \E a \in Args : Rlm(a)
    \/ \E a \in OtherArgs : RlmOther(a)
    \/ RlmAgain
    \/ RlmBroadcast
    \/ Discard

Spec == Init /\ [][Next]_vars

(***************************************************************************)
(* Two callers in two threads.  A thread may be switched between the       *)
(* seeding (line 91) and the draw (line 125); both act on the one          *)
(* process-wide generator.                                                 *)
(***************************************************************************)
Enter(t, a) ==
    /\ th[t].pc = "idle"
    /\ LET e == RlmEnter(a, rng)
       IN /\ rng' = e.rng
          /\ th' = [th EXCEPT ![t] =
                      [pc |-> IF e.out.exc # "" THEN "done" ELSE "entered",
                       args |-> a, out |-> e.out]]
    /\ UNCHANGED <<pc, last, again, bcast, model, table, given, pressed, diag>>

Finish(t) ==
    /\ th[t].pc = "entered"
    /\ LET res == RlmBody(th[t].args, rng)
       IN /\ rng' = res.rng
          /\ th' = [th EXCEPT ![t] = [@ EXCEPT !.pc = "done", !.out = res.out]]
    /\ UNCHANGED <<pc, last, again, bcast, model, table, given, pressed, diag>>

NextConc ==
    \/ \E t \in Threads, a \in ConcArgs : Enter(t, a)
    \/ \E t \in Threads : Finish(t)

SpecConc == Init /\ [][NextConc]_vars

(***************************************************************************)
(* Properties of rlm.                                                      *)
(***************************************************************************)
Held == pc = "done"
HeldArgs == last[1].args
HeldOut == last[1].out
HeldRows == HeldArgs.data[1].rows
SigmaMessage == "sigma must be numeric or of size of the number of rows in data"

\* formula is a str and data a DataFrame, so that n is defined
TypesValid(a) == a.formula.str /\ a.data # <<>>

\* the formula evaluates against data, so that the design matrix is defined
DesignBuilt(a) == TypesValid(a) /\ ~DmatrixRaises(a.formula, a.data[1])

\* p: the number of design-matrix columns left after the removal of the
\* offset columns (line 117)
ColumnsLeft(a) ==
    LET X0 == Dmatrix(a.formula, a.data[1])
    IN Len(DeleteColumns(X0, find_offset_position([k \in 1..Len(X0) |-> X0[k].name])))

SigmaSized(a) == a.sigma.scalar \/ Len(a.sigma.v) = a.data[1].rows
SigmaNonNegative(a) == \A i \in 1..Len(a.sigma.v) : a.sigma.v[i] >= 0

ValidCall(a) ==
    /\ DesignBuilt(a)
    /\ SigmaSized(a)
    /\ SigmaNonNegative(a)
    /\ Len(a.beta) = ColumnsLeft(a)

\* C1: a valid call (formula a str that evaluates against the DataFrame data,
\* sigma a non-negative number or a sequence of n non-negative numbers,
\* len(beta) = p) returns a vector of length exactly n, the number of rows.
C1_LengthIsRows ==
    (Held /\ ValidCall(HeldArgs)) =>
        /\ HeldOut.exc = ""
        /\ HeldOut.ret # <<>>
        /\ Len(HeldOut.ret[1]) = HeldRows

C1_Witness ==
    /\ Held
    /\ ValidCall(HeldArgs)
    /\ HeldArgs.formula = Formula(TRUE, <<T_x, T_group>>)
    /\ ~HeldArgs.sigma.scalar
    /\ HeldOut.ret # <<>>
    /\ Len(HeldOut.ret[1]) = MaxRows

\* C2: a call made with random_state S and repeated with the same arguments
\* and the same S, after any other calls, has the same outcome: the same
\* vector, or the same error.
C2_SameSeedSameVector ==
    (Held /\ again # <<>> /\ HeldArgs.random_state # <<>>) => again[1] = HeldOut

C2_Witness ==
    /\ Held
    /\ again # <<>>
    /\ HeldArgs.random_state # <<>>
    /\ ValidCall(HeldArgs)
    /\ HeldArgs.sigma = Scalar(2)
    /\ HeldOut.ret # <<>>
    /\ again[1].ret = HeldOut.ret
    /\ rng # SeedState(HeldArgs.random_state[1])

\* C3: when the design matrix is built, a beta whose length differs from p
\* ends the call in a ValueError and no vector (the dimension-mismatch error
\* of line 119, unless sigma was already rejected for its length), and a beta
\* of length p never raises the dimension-mismatch error.
C3_BetaLengthChecked ==
    (Held /\ DesignBuilt(HeldArgs)) =>
        /\ Len(HeldArgs.beta) # ColumnsLeft(HeldArgs) =>
              /\ HeldOut.exc = "ValueError"
              /\ HeldOut.ret = <<>>
              /\ SigmaSized(HeldArgs) => HeldOut.msg = "Dimension mismatch"
        /\ Len(HeldArgs.beta) = ColumnsLeft(HeldArgs) =>
              HeldOut.msg # "Dimension mismatch"

C3_Witness ==
    /\ Held
    /\ DesignBuilt(HeldArgs)
    /\ HeldArgs.formula = Formula(TRUE, <<T_x, T_offset_x>>)
    /\ Len(HeldArgs.beta) > ColumnsLeft(HeldArgs)
    /\ HeldOut.msg = "Dimension mismatch"

\* C4: with formula a str and data a DataFrame of n rows, a sigma given as a
\* sequence whose length differs from n ends the call in the ValueError of
\* line 98 and no vector; a scalar sigma never raises that error.
C4_SigmaLengthChecked ==
    (Held /\ TypesValid(HeldArgs)) =>
        /\ (~HeldArgs.sigma.scalar /\ Len(HeldArgs.sigma.v) # HeldRows) =>
              /\ HeldOut.exc = "ValueError"
              /\ HeldOut.msg = SigmaMessage
              /\ HeldOut.ret = <<>>
        /\ HeldArgs.sigma.scalar => HeldOut.msg # SigmaMessage

C4_Witness ==
    /\ Held
    /\ TypesValid(HeldArgs)
    /\ ~HeldArgs.sigma.scalar
    /\ Len(HeldArgs.sigma.v) > HeldRows
    /\ HeldOut.msg = SigmaMessage
    /\ HeldOut.ret = <<>>

\* C5: a call with data=None raises ValueError with the message "data must
\* be provided", whatever the other arguments.
C5_DataNoneIsValueError ==
    (Held /\ HeldArgs.data = <<>>) =>
        /\ HeldOut.exc = "ValueError"
        /\ HeldOut.msg = "data must be provided"

\* C6: for the same formula, beta, data and seed, the call with a scalar
\* sigma c and the call with sigma = [c] * n have the same outcome.
C6_ScalarIsBroadcast ==
    (Held /\ bcast # <<>> /\ HeldArgs.random_state # <<>>) => bcast[1] = HeldOut

C6_Witness ==
    /\ Held
    /\ bcast # <<>>
    /\ HeldArgs.random_state # <<>>
    /\ ValidCall(HeldArgs)
    /\ HeldArgs.sigma = Scalar(2)
    /\ HeldRows = MaxRows
    /\ HeldOut.ret # <<>>
    /\ bcast[1].ret = HeldOut.ret

\* C7: a design-matrix column is treated as an offset (left out of the
\* columns multiplied by beta and of p, added with coefficient 1) if and only
\* if it comes from a term offset(...): a seeded call with an acceptable
\* sigma returns X.beta + offsets + noise for the columns X that do not come
\* from an offset term when len(beta) is their number, and raises the
\* dimension-mismatch error otherwise.
C7_OffsetIffWrapped ==
    (/\ Held
     /\ DesignBuilt(HeldArgs)
     /\ SigmaSized(HeldArgs)
     /\ SigmaNonNegative(HeldArgs)
     /\ HeldArgs.random_state # <<>>) =>
        LET a == HeldArgs
            n == HeldRows
            X0 == Dmatrix(a.formula, a.data[1])
            wrapped == Sorted({k \in 1..Len(X0) : X0[k].kind = "offset"})
            X == DeleteColumns(X0, wrapped)
            noise == Normal(SeedState(a.random_state[1]), SigmaArray(a.sigma, n))
        IN IF Len(a.beta) = Len(X)
           THEN HeldOut =
                  Return(Response(X, a.beta, OffsetValues(X0, wrapped, n), noise.vals, n))
           ELSE HeldOut.msg = "Dimension mismatch"

\* C8: two calls, each with its own random_state, running in two threads with
\* their steps interleaved each end as they end when run alone.
C8_ThreadsIsolated ==
    \A t \in Threads :
        th[t].pc = "done" =>
            \A r \in RngStates : th[t].out = RlmRun(th[t].args, r).out

(***************************************************************************)
(* Numbers of tab_anova.  A float is modelled as the exact fraction        *)
(* [num, den] in lowest terms with den >= 0, rounding left out; den = 0    *)
(* gives the values numpy's division yields for a zero divisor: 1/0 is     *)
(* inf, -1/0 is -inf and 0/0 is nan.                                       *)
(***************************************************************************)
Abs(a) == IF a < 0 THEN -a ELSE a
Sign(a) == IF a < 0 THEN -1 ELSE IF a > 0 THEN 1 ELSE 0

RECURSIVE Gcd(_, _)
Gcd(a, b) == IF b = 0 THEN a ELSE Gcd(b, a % b)

\* The fraction n/d for d >= 0.
Rat(n, d) ==
    IF d = 0 THEN [num |-> Sign(n), den |-> 0]
    ELSE LET g == Gcd(Abs(n), d)
         IN [num |-> n \div g, den |-> d \div g]

Nan == Rat(0, 0)
Inf == Rat(1, 0)
IsFinite(a) == a.den # 0

RAdd(a, b) ==
    IF IsFinite(a) /\ IsFinite(b)
    THEN Rat(a.num * b.den + b.num * a.den, a.den * b.den)
    ELSE IF a = Nan \/ b = Nan THEN Nan
    ELSE IF IsFinite(a) THEN b
    ELSE IF IsFinite(b) \/ a = b THEN a
    ELSE Nan

RNeg(a) == [num |-> -a.num, den |-> a.den]
RSub(a, b) == RAdd(a, RNeg(b))
RMul(a, b) == Rat(a.num * b.num, a.den * b.den)

\* a / b as numpy divides: a zero divisor gives inf, -inf or nan.
RDiv(a, b) ==
    LET n == a.num * b.den
        d == a.den * b.num
    IN IF d < 0 THEN Rat(-n, -d) ELSE Rat(n, d)

RInt(k) == Rat(k, 1)

RECURSIVE RSum(_)
RSum(s) == IF s = <<>> THEN RInt(0) ELSE RAdd(Head(s), RSum(Tail(s)))

\* np.sum(v ** 2)
SumOfSquares(v) == RSum([i \in 1..Len(v) |-> RMul(v[i], v[i])])

\* np.mean(y)
Mean(y) == RDiv(RSum(y), RInt(Len(y)))

(***************************************************************************)
(* The fitted models handed to tab_anova: statsmodels OLS results for a    *)
(* response y against the columns ones (every entry 1) and x = 0, 1, ...   *)
(* The model is built from a formula and a data frame (smf.ols), which     *)
(* names the formula's own intercept "Intercept" and attaches the frame as *)
(* model.model.data.frame, or from arrays (sm.OLS), which attaches no      *)
(* frame.                                                                  *)
(***************************************************************************)
S_one == <<"o", "n", "e">>
S_const == <<"c", "o", "n", "s", "t">>
S_y == <<"y">>
S_stdresid == <<"s", "t", "d", "r", "e", "s", "i", "d">>

\* [frame: built by smf.ols, ones: the name of the column of ones or <<>>
\*  without one, x: whether x is a column]
Designs ==
    { [frame |-> TRUE, ones |-> S_Intercept, x |-> FALSE],   \* smf.ols("y ~ 1")
      [frame |-> TRUE, ones |-> S_Intercept, x |-> TRUE],    \* smf.ols("y ~ x")
      [frame |-> TRUE, ones |-> <<>>, x |-> TRUE],           \* smf.ols("y ~ x - 1")
      [frame |-> TRUE, ones |-> S_one, x |-> FALSE],         \* smf.ols("y ~ one - 1")
      [frame |-> TRUE, ones |-> S_one, x |-> TRUE],          \* smf.ols("y ~ one + x - 1")
      [frame |-> FALSE, ones |-> S_const, x |-> TRUE] }      \* sm.OLS(y, sm.add_constant(x))

Responses == UNION {[1..n -> {0, 1, 2}] : n \in 2..MaxObs}

\* model.model.exog with model.model.exog_names
Exog(design, n) ==
    (IF design.ones # <<>>
     THEN << [name |-> design.ones, vals |-> [i \in 1..n |-> 1]] >>
     ELSE <<>>)
    \o (IF design.x
        THEN << [name |-> S_x, vals |-> [i \in 1..n |-> i - 1]] >>
        ELSE <<>>)

\* model.resid: y minus its least-squares fit on the columns of the design.
Resid(design, y) ==
    LET n == Len(y)
        x == [i \in 1..n |-> i - 1]
        sy == SumSeq(y)
        sx == SumSeq(x)
        sxx == SumSeq([i \in 1..n |-> x[i] * x[i]])
        sxy == SumSeq([i \in 1..n |-> x[i] * y[i]])
    IN IF design.ones # <<>> /\ design.x
       THEN LET b1 == Rat(n * sxy - sx * sy, n * sxx - sx * sx)
                b0 == RDiv(RSub(RInt(sy), RMul(b1, RInt(sx))), RInt(n))
            IN [i \in 1..n |-> RSub(RInt(y[i]), RAdd(b0, RMul(b1, RInt(x[i]))))]
       ELSE IF design.x
       THEN LET b == Rat(sxy, sxx)
            IN [i \in 1..n |-> RSub(RInt(y[i]), RMul(b, RInt(x[i])))]
       ELSE [i \in 1..n |-> RSub(RInt(y[i]), Rat(sy, n))]

\* model.get_influence().hat_matrix_diag: the diagonal of X (X'X)^-1 X'.
HatMatrixDiag(design, n) ==
    LET x == [i \in 1..n |-> i - 1]
        sx == SumSeq(x)
        sxx == SumSeq([i \in 1..n |-> x[i] * x[i]])
    IN IF design.ones # <<>> /\ design.x
       THEN [i \in 1..n |->
               RAdd(Rat(1, n),
                    Rat((n * x[i] - sx) * (n * x[i] - sx), n * (n * sxx - sx * sx)))]
       ELSE IF design.x
       THEN [i \in 1..n |-> Rat(x[i] * x[i], sxx)]
       ELSE [i \in 1..n |-> Rat(1, n)]

\* The columns of the data frame handed to smf.ols, which the model keeps as
\* model.model.data.frame: the response and the columns the formula names.
DataColumns(X) ==
    <<S_y>> \o [k \in 1..Len(SelectSeq(X, LAMBDA c : c.name # S_Intercept)) |->
                 SelectSeq(X, LAMBDA c : c.name # S_Intercept)[k].name]

\* An argument that is no results object, such as a str or None: it has
\* none of the attributes.
NotAResult ==
    [is_results |-> FALSE, has_frame |-> FALSE, frame |-> <<>>, endog |-> <<>>,
     exog |-> <<>>, exog_names |-> <<>>, resid |-> <<>>, df_resid |-> 0,
     hat_matrix_diag |-> <<>>]

\* The results object of .fit(): what tab_anova and press read of it.
Fitted(design, y) ==
    LET X == Exog(design, Len(y))
    IN [is_results |-> TRUE,
        has_frame |-> design.frame,
        frame |-> IF design.frame THEN DataColumns(X) ELSE <<>>,
        endog |-> [i \in 1..Len(y) |-> RInt(y[i])],
        exog |-> X,
        exog_names |-> [k \in 1..Len(X) |-> X[k].name],
        resid |-> Resid(design, y),
        df_resid |-> Len(y) - Len(X),
        hat_matrix_diag |-> HatMatrixDiag(design, Len(y))]

(***************************************************************************)
(* tab_anova(model)                                                        *)
(***************************************************************************)
\* Mutant: an infinite F is treated as a finite positive one.
PValue_finite(f0, dfn, dfd) ==
    IF f0 = Nan \/ dfn <= 0 \/ dfd <= 0 THEN "nan"
    ELSE IF f0.num <= 0 THEN "1"
    ELSE "open"

\* scipy.stats.f.cdf's complement for the F ratio f0: "nan", "0", "1", or
\* "open" for a value strictly between 0 and 1.
PValue(f0, dfn, dfd) ==
    IF f0 = Nan \/ dfn <= 0 \/ dfd <= 0 THEN "nan"
    ELSE IF f0 = Inf THEN "0"
    ELSE IF f0.num <= 0 THEN "1"
    ELSE "open"

\* if model.model.exog_names[0] == 'Intercept'
FirstIsIntercept(exog_names) == exog_names[1] = S_Intercept

\* Mutant: one degree of freedom is lost.
GlMod_less(gl_total, gl_res) == gl_total - gl_res - 1

\* gl_mod = gl_total - gl_res
GlMod(gl_total, gl_res) == gl_total - gl_res

\* Mutant: the residual sum of squares is taken twice.
SQModOf_twice(SQTotal, SQRes) == RSub(SQTotal, RAdd(SQRes, SQRes))

\* SQMod = SQTotal - SQRes
SQModOf(SQTotal, SQRes) == RSub(SQTotal, SQRes)

TabAnova(m) ==
    IF ~m.has_frame
    THEN [exc |-> "AttributeError", Df |-> <<>>, SumSq |-> <<>>, MeanSq |-> <<>>,
          F |-> <<>>, Pr |-> <<>>]
    ELSE
    LET y == m.endog
        n == Len(m.exog[1].vals)
        r == m.resid
        gl_res == m.df_resid
        centered == FirstIsIntercept(m.exog_names)
        gl_total == IF centered THEN n - 1 ELSE n
        SQTotal == IF centered
                   THEN SumOfSquares([i \in 1..Len(y) |-> RSub(y[i], Mean(y))])
                   ELSE SumOfSquares(y)
        gl_mod == GlMod(gl_total, gl_res)
        SQRes == SumOfSquares(r)
        SQMod == SQModOf(SQTotal, SQRes)
        QMRes == RDiv(SQRes, RInt(gl_res))
        QMMod == RDiv(SQMod, RInt(gl_mod))
        f0 == RDiv(QMMod, QMRes)
    IN [exc |-> "",
        Df |-> <<gl_mod, gl_res, gl_total>>,
        SumSq |-> <<SQMod, SQRes, SQTotal>>,
        MeanSq |-> <<QMMod, QMRes>>,
        F |-> <<f0>>,
        Pr |-> <<PValue(f0, gl_mod, gl_res)>>]

\* A model is fitted.
Fit(design, y) ==
    /\ model = <<>>
    /\ model' = <<Fitted(design, y)>>
    /\ table' = <<>>
    /\ UNCHANGED <<rng, pc, last, again, bcast, th, given, pressed, diag>>

\* An object that is no results object is handed over in place of a model.
NotFitted ==
    /\ model = <<>>
    /\ model' = <<NotAResult>>
    /\ table' = <<>>
    /\ UNCHANGED <<rng, pc, last, again, bcast, th, given, pressed, diag>>

\* anova = tab_anova(model)
Anova ==
    /\ model # <<>>
    /\ table = <<>>
    /\ table' = <<TabAnova(model[1])>>
    /\ UNCHANGED <<rng, pc, last, again, bcast, th, model, given, pressed, diag>>

\* The caller lets go of the model and of its table.
Release ==
    /\ table # <<>>
    /\ model' = <<>>
    /\ table' = <<>>
    /\ UNCHANGED <<rng, pc, last, again, bcast, th, given, pressed, diag>>

NextAnova ==
    \/ \E design \in Designs, y \in Responses : Fit(design, y)
    \/ NotFitted
    \/ Anova
    \/ Release

SpecAnova == Init /\ [][NextAnova]_vars

(***************************************************************************)
(* Properties of tab_anova.                                                *)
(***************************************************************************)
Returned == table # <<>> /\ table[1].exc = ""
Row_Model == 1
Row_Error == 2
Row_Total == 3

\* C9: in every table tab_anova returns, Df(Model) + Df(Error) = Df(Total)
\* and SumSq(Model) + SumSq(Error) = SumSq(Total).
C9_Additive ==
    Returned =>
        /\ table[1].Df[Row_Model] + table[1].Df[Row_Error] = table[1].Df[Row_Total]
        /\ RAdd(table[1].SumSq[Row_Model], table[1].SumSq[Row_Error])
             = table[1].SumSq[Row_Total]

C9_Witness ==
    /\ Returned
    /\ ~FirstIsIntercept(model[1].exog_names)
    /\ table[1].SumSq[Row_Model].num > 0
    /\ table[1].SumSq[Row_Error].num > 0
    /\ table[1].SumSq[Row_Error].den > 1
    /\ table[1].Df[Row_Error] > 0

\* The design matrix holds an intercept column: a column whose entries are
\* all 1.
HasInterceptColumn(m) ==
    \E k \in 1..Len(m.exog) : \A i \in 1..Len(m.exog[k].vals) : m.exog[k].vals[i] = 1

\* C10: the table's total Df is n - 1 and its total sum of squares centered
\* for every model whose design matrix holds an intercept column, and the
\* total Df is n and the total sum of squares uncentered for the others.
C10_TotalByIntercept ==
    Returned =>
        LET m == model[1]
            y == m.endog
            n == Len(y)
        IN IF HasInterceptColumn(m)
           THEN /\ table[1].Df[Row_Total] = n - 1
                /\ table[1].SumSq[Row_Total]
                     = SumOfSquares([i \in 1..n |-> RSub(y[i], Mean(y))])
           ELSE /\ table[1].Df[Row_Total] = n
                /\ table[1].SumSq[Row_Total] = SumOfSquares(y)

\* C11: tab_anova returns no table when the residual Df or the model Df is
\* <= 0: every table it returns has residual Df > 0 and model Df > 0, so
\* that no mean square of a returned table is a quotient by such a value.
C11_NoDegenerateTable ==
    Returned =>
        /\ table[1].Df[Row_Error] > 0
        /\ table[1].Df[Row_Model] > 0

(***************************************************************************)
(* press(models...) (statistics/press.py)                                    *)
(*                                                                         *)
(* An outcome is [exc, returns, value, table]: returns is "float" with     *)
(* value = <<PRESS>>, or "DataFrame" with the rows of the table in the     *)
(* order of the frame, or "" when the call raised exc.                     *)
(***************************************************************************)
MaxModels == 3

S_Model == <<"M", "o", "d", "e", "l", " ">>
Digits == <<"1", "2", "3", "4", "5", "6", "7", "8", "9">>

\* f"Model {i+1}" for i = k - 1
ModelName(k) == S_Model \o <<Digits[k]>>

\* sum(v): the sum of the sequence without the squares
ComputePress_unsquared(m) ==
    RSum([i \in 1..Len(m.resid) |->
            RDiv(m.resid[i], RSub(RInt(1), m.hat_matrix_diag[i]))])

\* _compute_press(model)
ComputePress(m) ==
    RSum([i \in 1..Len(m.resid) |->
            LET q == RDiv(m.resid[i], RSub(RInt(1), m.hat_matrix_diag[i]))
            IN RMul(q, q)])

\* a < b for two values that are not nan
RLess(a, b) == a.num * b.den < b.num * a.den

\* The rows in the order given, without the sort.
SortValues_unsorted(results) == { [k \in 1..Len(results) |-> k] }

\* The orders sort_values(by="PRESS") may give the rows: ascending with the
\* nan values last in the order they were given.  The default sort is not
\* stable, so equal values come in either order.
SortValues(results) ==
    LET n == Len(results)
    IN { o \in [1..n -> 1..n] :
           /\ \A j, k \in 1..n : j # k => o[j] # o[k]
           /\ \A k \in 1..(n - 1) :
                 LET a == results[o[k]]
                     b == results[o[k + 1]]
                 IN IF a = Nan THEN b = Nan /\ o[k] < o[k + 1]
                    ELSE b = Nan \/ ~RLess(b, a) }

\* The outcomes of press(models...).
Press(models) ==
    IF \E k \in 1..Len(models) : ~models[k].is_results
    THEN { [exc |-> "TypeError", returns |-> "", value |-> <<>>, table |-> <<>>] }
    ELSE LET results == [k \in 1..Len(models) |-> ComputePress(models[k])]
         IN IF Len(models) = 1
            THEN { [exc |-> "", returns |-> "float", value |-> <<results[1]>>,
                    table |-> <<>>] }
            ELSE { [exc |-> "", returns |-> "DataFrame", value |-> <<>>,
                    table |-> [k \in 1..Len(models) |->
                                 [Model |-> ModelName(o[k]),
                                  PRESS |-> results[o[k]]]]] :
                   o \in SortValues(results) }

\* The responses of the models handed to press.
PressResponses == { <<0, 1>>, <<0, 2, 1>> }

\* The designs of the models handed to press: "y ~ 1", "y ~ x", "y ~ x - 1"
\* and sm.OLS(y, sm.add_constant(x)).
PressDesigns == { design \in Designs : design.ones # S_one }

PressModels ==
    { Fitted(design, y) : design \in PressDesigns, y \in PressResponses }
    \cup { NotAResult }

\* out = press(models...)
PressCall(models) ==
    /\ pressed = <<>>
    /\ given' = models
    /\ \E out \in Press(models) : pressed' = <<out>>
    /\ UNCHANGED <<rng, pc, last, again, bcast, th, model, table, diag>>

\* The caller lets go of the models and of the outcome.
PressRelease ==
    /\ pressed # <<>>
    /\ given' = <<>>
    /\ pressed' = <<>>
    /\ UNCHANGED <<rng, pc, last, again, bcast, th, model, table, diag>>

NextPress ==
    \/ \E models \in SeqsOf(PressModels, 0, MaxModels) : PressCall(models)
    \/ PressRelease

\* press neither reads nor writes the generator: one state of it is kept.
InitPress == Init /\ rng = 0

SpecPress == InitPress /\ [][NextPress]_vars

(***************************************************************************)
(* Properties of press.                                                    *)
(***************************************************************************)
PressReturned == pressed # <<>> /\ pressed[1].exc = ""

FullLeverage(m) ==
    \E i \in 1..Len(m.hat_matrix_diag) : m.hat_matrix_diag[i] = RInt(1)

\* C12: press returns no value when an observation of one of the models
\* given has leverage exactly 1: every call that returns was given models
\* whose leverages are all different from 1.
C12_NoFullLeverageValue ==
    PressReturned => \A k \in 1..Len(given) : ~FullLeverage(given[k])

\* a < b as floats compare: never true of nan
FLess(a, b) == a # Nan /\ b # Nan /\ RLess(a, b)

\* C13: press given two or more models returns a table with exactly one
\* row for each model, the row labelled "Model k" holding the PRESS of the
\* k-th argument, and no row holding a PRESS less than the row before it;
\* given one model it returns that model's PRESS as a number.
C13_RankedTable ==
    PressReturned =>
        LET n == Len(given)
            out == pressed[1]
        IN /\ n >= 2 =>
                /\ out.returns = "DataFrame"
                /\ Len(out.table) = n
                /\ \A k \in 1..n :
                      \E j \in 1..n :
                          /\ out.table[j].Model = ModelName(k)
                          /\ out.table[j].PRESS = ComputePress(given[k])
                          /\ \A i \in 1..n :
                                out.table[i].Model = ModelName(k) => i = j
                /\ \A j \in 1..(n - 1) :
                      ~FLess(out.table[j + 1].PRESS, out.table[j].PRESS)
           /\ n = 1 =>
                /\ out.returns = "float"
                /\ out.value = <<ComputePress(given[1])>>

C13_Witness ==
    /\ PressReturned
    /\ Len(given) = 3
    /\ pressed[1].table[1].Model = ModelName(3)
    /\ pressed[1].table[2].Model = ModelName(1)
    /\ FLess(pressed[1].table[1].PRESS, pressed[1].table[2].PRESS)
    /\ FLess(pressed[1].table[2].PRESS, pressed[1].table[3].PRESS)

\* Every leverage of the model is less than 1.
LeveragesBelowOne(m) ==
    \A i \in 1..Len(m.hat_matrix_diag) : RLess(m.hat_matrix_diag[i], RInt(1))

\* C14: for a model whose leverages are all less than 1, press(model) is
\* the sum over the observations of residual^2 / (1 - leverage)^2, a number
\* that is >= 0.
C14_PressIsSumOfSquares ==
    (PressReturned /\ Len(given) = 1 /\ LeveragesBelowOne(given[1])) =>
        LET m == given[1]
            v == pressed[1].value[1]
        IN /\ v = RSum([i \in 1..Len(m.resid) |->
                          LET d == RSub(RInt(1), m.hat_matrix_diag[i])
                          IN RDiv(RMul(m.resid[i], m.resid[i]), RMul(d, d))])
           /\ IsFinite(v)
           /\ v.num >= 0

C14_Witness ==
    /\ PressReturned
    /\ Len(given) = 1
    /\ LeveragesBelowOne(given[1])
    /\ pressed[1].value[1].num > 0
    /\ pressed[1].value[1].den > 1
    /\ \E i \in 1..Len(given[1].resid) : given[1].resid[i].num < 0

(***************************************************************************)
(* The statistics and plots asked of one model: R2 and R2adj               *)
(* (statistics/r2.py), press, tab_anova, gginfluence                       *)
(* (graphics/gginfluence.py) and ggresiduals (graphics/ggresiduals.py).    *)
(*                                                                         *)
(* An outcome is [fn, exc, plots, value]: the function called, the         *)
(* exception it raised or "", the number of plots it showed and <<v>> for  *)
(* a number returned.  The drawing itself is left to plotnine and is taken *)
(* to succeed.                                                             *)
(***************************************************************************)
Raised(fn, exc) == [fn |-> fn, exc |-> exc, plots |-> 0, value |-> <<>>]
Plotted(fn, k) == [fn |-> fn, exc |-> "", plots |-> k, value |-> <<>>]
Valued(fn, v) == [fn |-> fn, exc |-> "", plots |-> 0, value |-> <<v>>]

\* model.rsquared: 1 - ssr / centered_tss for a design with a constant
\* column, 1 - ssr / uncentered_tss for the others.
RSquared(m) ==
    LET tss == IF HasInterceptColumn(m)
               THEN SumOfSquares([i \in 1..Len(m.endog) |->
                                    RSub(m.endog[i], Mean(m.endog))])
               ELSE SumOfSquares(m.endog)
    IN RSub(RInt(1), RDiv(SumOfSquares(m.resid), tss))

\* model.rsquared_adj: 1 - (nobs - k_constant) / df_resid * (1 - rsquared)
RSquaredAdj(m) ==
    LET k_constant == IF HasInterceptColumn(m) THEN 1 ELSE 0
    IN RSub(RInt(1),
            RMul(RDiv(RInt(Len(m.endog) - k_constant), RInt(m.df_resid)),
                 RSub(RInt(1), RSquared(m))))

\* R2(model)
R2(m) ==
    IF ~m.is_results THEN Raised("R2", "TypeError")
    ELSE Valued("R2", RSquared(m))

\* R2adj(model)
R2adj(m) ==
    IF ~m.is_results THEN Raised("R2adj", "TypeError")
    ELSE Valued("R2adj", RSquaredAdj(m))

UpperCase ==
    <<"A", "B", "C", "D", "E", "F", "G", "H", "I", "J", "K", "L", "M",
      "N", "O", "P", "Q", "R", "S", "T", "U", "V", "W", "X", "Y", "Z">>
LowerCase ==
    <<"a", "b", "c", "d", "e", "f", "g", "h", "i", "j", "k", "l", "m",
      "n", "o", "p", "q", "r", "s", "t", "u", "v", "w", "x", "y", "z">>

\* s.lower()
Lower(s) ==
    [i \in 1..Len(s) |->
        IF \E k \in 1..Len(UpperCase) : UpperCase[k] = s[i]
        THEN LowerCase[CHOOSE k \in 1..Len(UpperCase) : UpperCase[k] = s[i]]
        ELSE s[i]]

S_leverage == <<"l", "e", "v", "e", "r", "a", "g", "e">>
S_dfbetas == <<"d", "f", "b", "e", "t", "a", "s">>
S_cooksd == <<"c", "o", "o", "k", "s", "d">>
S_dffits == <<"d", "f", "f", "i", "t", "s">>
S_covratio == <<"c", "o", "v", "r", "a", "t", "i", "o">>
S_CooksD == <<"C", "o", "o", "k", "s", "D">>
S_hat == <<"h", "a", "t">>

Measures == {S_leverage, S_dfbetas, S_cooksd, S_dffits, S_covratio}

\* gginfluence(model, measure)
GgInfluence(m, measure) ==
    IF Lower(measure) \notin Measures THEN Raised("gginfluence", "ValueError")
    ELSE IF ~m.is_results THEN Raised("gginfluence", "AttributeError")
    ELSE Plotted("gginfluence", 1)

PlotFunctions == 1..6

\* ggresiduals: defaultPlots(which, alpha)
DefaultPlots(m, which) ==
    IF ~m.is_results THEN Raised("default", "AttributeError")
    ELSE IF which \notin PlotFunctions THEN Raised("default", "KeyError")
    ELSE Plotted("default", 1)

\* ggresiduals: avPlots().  One auxiliary regression is fitted for each
\* plot; with the intercept and one predictor its formula has an empty
\* right-hand side ("x ~ "), which patsy may refuse.
AvPlots(m) ==
    IF ~m.has_frame THEN { Raised("avPlots", "AttributeError") }
    ELSE LET p == Len(m.exog_names)
             labels == IF m.exog_names[1] = S_Intercept
                       THEN Tail(m.exog_names) ELSE m.exog_names
         IN IF p - 1 <= 0 THEN { Plotted("avPlots", 0) }
            ELSE IF Len(labels) = 1
            THEN { Raised("avPlots", "PatsyError"), Plotted("avPlots", p - 1) }
            ELSE { Plotted("avPlots", p - 1) }

\* ggresiduals: crPlots()
CrPlots(m) ==
    IF ~m.has_frame THEN Raised("crPlots", "AttributeError")
    ELSE LET labels == SelectSeq(m.frame, LAMBDA c : c # S_y)
         IN IF \E j \in 1..Len(labels) :
                  \A k \in 1..Len(m.exog_names) : m.exog_names[k] # labels[j]
            THEN Raised("crPlots", "KeyError")
            ELSE Plotted("crPlots", Len(labels))

\* mf[name] = values: the column is overwritten, or added as the last one
SetColumn(columns, name) ==
    IF \E k \in 1..Len(columns) : columns[k] = name
    THEN columns ELSE Append(columns, name)

\* ggresiduals: covPlots(), [out, frame]: the outcome and the columns of
\* model.model.data.frame after the call
CovPlots(m) ==
    IF ~m.has_frame
    THEN [out |-> Raised("covPlots", "AttributeError"), frame |-> m.frame]
    ELSE LET mf == SetColumn(m.frame, S_stdresid)
             p == Len(mf) - 1
         IN [out |-> Plotted("covPlots", IF p - 1 > 0 THEN p - 1 ELSE 0),
             frame |-> mf]

\* ggresiduals(model, type, which), [out, frame]
GgResiduals(m, type, which) ==
    IF type = "default"
    THEN { [out |-> DefaultPlots(m, which), frame |-> m.frame] }
    ELSE IF type = "avPlots"
    THEN { [out |-> o, frame |-> m.frame] : o \in AvPlots(m) }
    ELSE IF type = "crPlots"
    THEN { [out |-> CrPlots(m), frame |-> m.frame] }
    ELSE IF type = "covPlots"
    THEN { CovPlots(m) }
    ELSE { [out |-> Raised("ggresiduals", "ValueError"), frame |-> m.frame] }

Types == {"default", "avPlots", "crPlots", "covPlots", "qqPlots"}
Whichs == 0..7
MeasureArgs == Measures \cup {S_CooksD, S_hat}

\* ggresiduals(model, type=type, which=which)
GgResidualsCall(type, which) ==
    /\ model # <<>>
    /\ \E r \in GgResiduals(model[1], type, which) :
          /\ diag' = <<r.out>>
          /\ model' = <<[model[1] EXCEPT !.frame = r.frame]>>
    /\ UNCHANGED <<rng, pc, last, again, bcast, th, table, given, pressed>>

\* gginfluence(model, measure=measure)
GgInfluenceCall(measure) ==
    /\ model # <<>>
    /\ diag' = <<GgInfluence(model[1], measure)>>
    /\ UNCHANGED <<rng, pc, last, again, bcast, th, model, table, given, pressed>>

\* R2(model)
R2Call ==
    /\ model # <<>>
    /\ diag' = <<R2(model[1])>>
    /\ UNCHANGED <<rng, pc, last, again, bcast, th, model, table, given, pressed>>

\* R2adj(model)
R2adjCall ==
    /\ model # <<>>
    /\ diag' = <<R2adj(model[1])>>
    /\ UNCHANGED <<rng, pc, last, again, bcast, th, model, table, given, pressed>>

\* press(model)
PressOfModel ==
    /\ model # <<>>
    /\ \E out \in Press(<<model[1]>>) :
          diag' = <<[fn |-> "press", exc |-> out.exc, plots |-> 0,
                     value |-> out.value]>>
    /\ UNCHANGED <<rng, pc, last, again, bcast, th, model, table, given, pressed>>

\* The caller lets go of the model and of what was computed from it.
Drop ==
    /\ model # <<>>
    /\ model' = <<>>
    /\ table' = <<>>
    /\ diag' = <<>>
    /\ UNCHANGED <<rng, pc, last, again, bcast, th, given, pressed>>

NextDiag ==
    \/ \E design \in Designs, y \in PressResponses : Fit(design, y)
    \/ NotFitted
    \/ Anova
    \/ PressOfModel
    \/ R2Call
    \/ R2adjCall
    \/ \E measure \in MeasureArgs : GgInfluenceCall(measure)
    \/ \E type \in Types, which \in Whichs : GgResidualsCall(type, which)
    \/ Drop

\* None of these functions reads or writes the generator: one state of it
\* is kept.
InitDiag == Init /\ rng = 0

SpecDiag == InitDiag /\ [][NextDiag]_vars

(***************************************************************************)
(* Properties of the functions that take a fitted model.                   *)
(***************************************************************************)
\* The model as .fit() returned it.
AsFitted(m) ==
    [m EXCEPT !.frame = IF m.has_frame THEN DataColumns(m.exog) ELSE <<>>]

\* C15: tab_anova, press, R2, R2adj, gginfluence and ggresiduals leave the
\* model and its data frame as they were, and what crPlots does is what it
\* does on the model as fitted, whichever calls came before.
C15_ModelReadOnly ==
    model # <<>> =>
        /\ model[1] = AsFitted(model[1])
        /\ (diag # <<>> /\ diag[1].fn = "crPlots") =>
               diag[1] = CrPlots(AsFitted(model[1]))

(***************************************************************************)
(* rlm at the edges of its inputs: a formula without columns, and          *)
(* non-finite entries of beta and sigma.                                   *)
(***************************************************************************)
\* beta and sigma with and without nan, inf and -inf
EdgeBetas == { <<>>, <<2>>, <<2, 3>>, <<F_nan>>, <<2, F_inf>>, <<-F_inf, 3>> }

EdgeSigmas ==
    {Scalar(c) : c \in {1, F_nan, F_inf, -F_inf}}
    \cup {Array([i \in 1..k |-> IF i = k THEN c ELSE 1]) :
            k \in 1..MaxRows, c \in {2, F_nan, F_inf}}

EdgeArgs ==
    [formula : {Formula(TRUE, <<T_x>>),      \* "x"
                Formula(FALSE, <<T_x>>),     \* "x - 1"
                Formula(FALSE, <<>>)},       \* "0"
     beta : EdgeBetas, sigma : EdgeSigmas,
     data : {<<Frame(n)>> : n \in 1..MaxRows},
     random_state : RandomStates]

NextEdge ==
    \/ \E a \in EdgeArgs : Rlm(a)
    \/ Discard

SpecEdge == Init /\ [][NextEdge]_vars

\* C16: rlm ends in an error and returns no vector when the formula yields
\* a design matrix without columns, whatever beta is, the empty beta
\* included.
C16_NoColumnsRejected ==
    (Held /\ DesignBuilt(HeldArgs)
          /\ Dmatrix(HeldArgs.formula, HeldArgs.data[1]) = <<>>) =>
        /\ HeldOut.exc # ""
        /\ HeldOut.ret = <<>>

HasNonFinite(v) == \E i \in 1..Len(v) : NonFinite(v[i])

\* C17: rlm ends in an error whenever an entry of beta or of sigma (a
\* number or a sequence) is nan, inf or -inf.
C17_NonFiniteRejected ==
    (Held /\ (HasNonFinite(HeldArgs.beta) \/ HasNonFinite(HeldArgs.sigma.v))) =>
        /\ HeldOut.exc # ""
        /\ HeldOut.ret = <<>>

(***************************************************************************)
(* tab_anova on a perfect fit, and on an argument that is no model.        *)
(***************************************************************************)
\* All residuals are zero and the residual Df is > 0.
PerfectFit(m) ==
    /\ m.df_resid > 0
    /\ \A i \in 1..Len(m.resid) : m.resid[i] = RInt(0)

C19_TypeErrorForOthers ==
    (table # <<>> /\ ~model[1].is_results) => table[1].exc = "TypeError"

\* C20: a call of rlm that ends in an error leaves the generator in the
\* state it was in before the call, with random_state given or not.
C20_FailedCallKeepsGenerator ==
    [][(pc = "idle" /\ pc' = "done" /\ last'[1].out.exc # "") => rng' = rng]_vars

====
